---- MODULE Spec2Model ----
(***************************************************************************)
(* Model of the client-side media utilities and collaborator wrappers of   *)
(* contentcraft-script-studio:                                             *)
(*   - audioBufferToWavBase64 (src/App.tsx), the 16-bit PCM WAV serializer *)
(*   - extractVideoFrames (src/App.tsx), the keyframe sampler              *)
(*   - reviseScriptWithAI (services/geminiService), the revision wrapper   *)
(*   - downloadAsSrt (src/components), the SubRip export                   *)
(*   - App (src/App.tsx), the pipeline that runs them: handleProcessVideo, *)
(*     handleProcessUrl, startProcessing, resetState                       *)
(* Each utility has its own specification (SpecWav, SpecFrames,            *)
(* SpecRevise, SpecSrt); a specification leaves the other utilities'       *)
(* variables at their initial values.  SpecApp runs the pipeline with the  *)
(* frame sampler inside it.                                                *)
(***************************************************************************)
EXTENDS Integers, Sequences, FiniteSets, TLC

\* ------------------------------------------------------------------------
\* Bounds of the model
\* ------------------------------------------------------------------------

\* largest AudioBuffer.numberOfChannels explored
MaxChannels == 2

\* largest AudioBuffer.length (frames per channel) explored
MaxFrameCount == 3

\* largest total number of samples (frames * channels) of an explored buffer
MaxSamples == 4

\* largest numberOfFrames passed to extractVideoFrames
MaxNumberOfFrames == 5

\* largest video duration explored (seconds)
MaxDuration == 10

\* largest number of segments of a transcript passed to reviseScriptWithAI
MaxTranscriptLen == 2

\* largest number of elements of an array answered by the revision model
MaxResponseLen == 3

\* largest number of segments of a transcript exported as SRT
MaxSrtLen == 2

\* largest number of videos submitted in one session
MaxSubmissions == 2

\* largest number of re-revisions requested in one session
MaxReRevisions == 2

\* ------------------------------------------------------------------------
\* Helpers
\* ------------------------------------------------------------------------

Min(a, b) == IF a < b THEN a ELSE b

Max(a, b) == IF a > b THEN a ELSE b

\* ------------------------------------------------------------------------
\* PCM samples.  A Float32 sample is represented by its numerator over
\* SampleDen: the integer s stands for the float s / SampleDen, which is
\* exactly representable (SampleDen is a power of two).
\* ------------------------------------------------------------------------

SampleDen == 4

\* the samples explored: 1.5, 1.0, 0.5, 0.0, -0.5, -0.75, -1.0, -1.5
SampleValues == {6, 4, 2, 0, -2, -3, -4, -6}

\* the sample rates explored (Hz)
SampleRates == {8000, 44100}

\* an AudioBuffer: numberOfChannels, sampleRate, length and the channel data
\* (getChannelData(c)[f] is channelData[c + 1][f + 1])
AudioBuffers ==
    UNION { UNION { [numberOfChannels : {nc}, sampleRate : SampleRates,
                     length : {fc},
                     channelData : [1..nc -> [1..fc -> SampleValues]]]
                    : fc \in {f \in 0..MaxFrameCount : f * nc <= MaxSamples} }
            : nc \in 1..MaxChannels }

VARIABLES
    \* ---- audioBufferToWavBase64 ----
    buffer,     \* the AudioBuffer argument
    wavPc,      \* position in the function: "start", "samples", "done"
    length,     \* const length
    view,       \* the DataView over bufferArr: byte offset -> byte
    pos,        \* let pos
    offset,     \* let offset
    i,          \* let i (channel index of the inner for loop)
    \* ---- extractVideoFrames ----
    numberOfFrames,   \* the numberOfFrames argument
    videoDuration,    \* the length of the file's video (whole seconds)
    duration,         \* const duration = video.duration
    interval,         \* const interval
    context,          \* canvas.getContext('2d') is not null
    videoState,       \* "none", "loading" (src set), "loaded" (metadata handled)
    videoError,       \* the video element has signalled an error
    videoCurrentTime, \* video.currentTime, the target of the last seek
    seekPending,      \* a seek has been issued and 'seeked' has not fired yet
    seeksIssued,      \* number of assignments to video.currentTime so far
    currentTime,      \* let currentTime
    framesExtracted,  \* let framesExtracted
    frames,           \* const frames: the capture time of each image
    urlRevocations,   \* number of URL.revokeObjectURL(videoUrl) calls
    promiseState,     \* the returned promise: "none", "pending", "fulfilled", "rejected"
    promiseValue,     \* the value or error the promise settled with
    \* ---- reviseScriptWithAI ----
    transcript,       \* the transcript argument
    aiResponse,       \* what ai.models.generateContent answers to the request
    revPc,            \* "idle", "awaiting" (request in flight), "done"
    revResult,        \* how the returned promise settled: [state, value]
    \* ---- downloadAsSrt ----
    srtTranscript,    \* the transcript argument (times in milliseconds)
    srtPc,            \* "idle", "done"
    srtContent,       \* the text put in the Blob, or NoDownload
    localTZA,         \* the local time zone's offset from UTC at the epoch (ms)
    \* ---- App: React state ----
    videoSrc,           \* 0 for null, k > 0 for the k-th player object URL
    isLoading,
    loadingMessage,
    originalTranscript, \* Null or Some(transcript)
    revisedTranscript,  \* Null or Some(transcript)
    visionAnalysis,     \* Null or Some(text)
    error,              \* Null or Some(message)
    revisingSegments,   \* Record<number, boolean>
    activeSegmentIndex, \* -1, or the index (counted from 0) of the highlighted row
    timeUpdateListener, \* handleTimeUpdate is registered on the player
    \* ---- App: the pipeline run in flight ----
    runPc,              \* "idle", "fetching", "readingBody", "extracting", "transcribing",
                        \* "revising", "ended"
    runInput,           \* what was submitted: a file, or a URL
    fetchResponse,      \* what fetch(url) answered, once it has
    fetchBlob,          \* response.blob(): its state and the blob's type
    audioTask,          \* extractAndEncodeAudio: "none", "running", "fulfilled", "rejected"
    transcribeTask,     \* transcribeAudio, likewise
    localTranscript,    \* const transcript of startProcessing
    reviseTask,         \* reviseScriptWithAI: [state, value]
    analysisTask,       \* analyzeScriptAndVision: [state, value]
    calls,              \* calls made in this run, per utility and collaborator
    urlsCreated,        \* number of player object URLs created so far
    urlsRevoked,        \* the player object URLs revoked so far
    submissions,        \* number of submissions so far
    \* ---- App: re-revisions of single segments ----
    reRevisions,        \* the handleReReviseSegment calls awaiting their request
    requestsIssued      \* number of re-revisions requested so far

wavVars == <<buffer, wavPc, length, view, pos, offset, i>>

fsVars == <<numberOfFrames, videoDuration, duration, interval, context,
            videoState, videoError,
            videoCurrentTime, seekPending, seeksIssued, currentTime,
            framesExtracted, frames, urlRevocations, promiseState,
            promiseValue>>

revVars == <<transcript, aiResponse, revPc, revResult>>

srtVars == <<srtTranscript, srtPc, srtContent, localTZA>>

appVars == <<videoSrc, isLoading, loadingMessage, originalTranscript,
             revisedTranscript, visionAnalysis, error, revisingSegments,
             activeSegmentIndex, timeUpdateListener, runPc, runInput, fetchResponse, fetchBlob, audioTask,
             transcribeTask, localTranscript, reviseTask, analysisTask, calls,
             urlsCreated, urlsRevoked, submissions>>

studioVars == <<reRevisions, requestsIssued>>

vars == <<wavVars, fsVars, revVars, srtVars, appVars, studioVars>>

\* ------------------------------------------------------------------------
\* DataView writes (little-endian), on a view that is a function from byte
\* offsets to bytes
\* ------------------------------------------------------------------------

\* view.setUint8(at, value)
SetUint8(v, at, value) == [v EXCEPT ![at] = value % 256]

\* view.setUint16(at, value, true)
SetUint16(v, at, value) ==
    [v EXCEPT ![at] = value % 256,
              ![at + 1] = (value \div 256) % 256]

\* view.setUint32(at, value, true)
SetUint32(v, at, value) ==
    [v EXCEPT ![at] = value % 256,
              ![at + 1] = (value \div 256) % 256,
              ![at + 2] = (value \div 65536) % 256,
              ![at + 3] = (value \div 16777216) % 256]

\* view.setInt16(at, value, true): two's complement of the low 16 bits
SetInt16(v, at, value) == SetUint16(v, at, (value + 65536) % 65536)

\* the loop of writeString from character k on (k counts from 1)
RECURSIVE writeStringFrom(_, _, _, _)
writeStringFrom(v, at, string, k) ==
    IF k > Len(string) THEN v
    ELSE writeStringFrom(SetUint8(v, at + k - 1, string[k]), at, string, k + 1)

\* writeString(view, at, string): string is the sequence of its char codes
writeString(v, at, string) == writeStringFrom(v, at, string, 1)

\* char codes of the four tags
TagRIFF == <<82, 73, 70, 70>>

TagWAVE == <<87, 65, 86, 69>>

TagFmt == <<102, 109, 116, 32>>

TagData == <<100, 97, 116, 97>>

\* ------------------------------------------------------------------------
\* Quantization of one sample (App.tsx lines 136-137)
\* ------------------------------------------------------------------------

\* (x | 0) of the rational num / den, for |num / den| < 2^31: truncation
\* toward zero
ToInt32(num, den) ==
    IF num >= 0 THEN num \div den ELSE -((-num) \div den)

\* Math.max(-1, Math.min(1, s))
Clamp(s) == Max(-SampleDen, Min(SampleDen, s))

\* mutant: every sample is scaled by 32767 (symmetric scaling)
Quantize_Symmetric(sample) == ToInt32(sample * 32767, SampleDen)

\* mutant: the scale is chosen by the sign of the sample (sample < 0)
Quantize_BySign(sample) ==
    IF sample < 0
    THEN ToInt32(sample * 32768, SampleDen)
    ELSE ToInt32(sample * 32767, SampleDen)

\* (0.5 + sample < 0 ? sample * 32768 : sample * 32767) | 0
Quantize(sample) ==
    IF SampleDen + 2 * sample < 0
    THEN ToInt32(sample * 32768, SampleDen)
    ELSE ToInt32(sample * 32767, SampleDen)

\* ------------------------------------------------------------------------
\* audioBufferToWavBase64
\* ------------------------------------------------------------------------

\* mutant: the length is computed as for a mono buffer
WavLength_Mono(b) == b.length * 2 + 44

\* const length = buffer.length * numOfChan * 2 + 44
WavLength(b) == b.length * b.numberOfChannels * 2 + 44

\* mutant: the sample rate and the byte rate are written in each other's
\* place
WavHeader_RatesSwapped(b, len) ==
    LET v0  == [k \in 0..(len - 1) |-> 0]
        v1  == writeString(v0, 0, TagRIFF)
        v2  == SetUint32(v1, 4, len - 8)
        v3  == writeString(v2, 8, TagWAVE)
        v4  == writeString(v3, 12, TagFmt)
        v5  == SetUint32(v4, 16, 16)
        v6  == SetUint16(v5, 20, 1)
        v7  == SetUint16(v6, 22, b.numberOfChannels)
        v8  == SetUint32(v7, 24, b.sampleRate * 2 * b.numberOfChannels)
        v9  == SetUint32(v8, 28, b.sampleRate)
        v10 == SetUint16(v9, 32, b.numberOfChannels * 2)
        v11 == SetUint16(v10, 34, 16)
        v12 == writeString(v11, 36, TagData)
    IN  SetUint32(v12, 40, len - 40 - 4)

\* mutant: the data-chunk size is written as length - pos (the 4 bytes of
\* the size field itself are not subtracted)
WavHeader_DataSizeOff(b, len) ==
    LET v0  == [k \in 0..(len - 1) |-> 0]
        v1  == writeString(v0, 0, TagRIFF)
        v2  == SetUint32(v1, 4, len - 8)
        v3  == writeString(v2, 8, TagWAVE)
        v4  == writeString(v3, 12, TagFmt)
        v5  == SetUint32(v4, 16, 16)
        v6  == SetUint16(v5, 20, 1)
        v7  == SetUint16(v6, 22, b.numberOfChannels)
        v8  == SetUint32(v7, 24, b.sampleRate)
        v9  == SetUint32(v8, 28, b.sampleRate * 2 * b.numberOfChannels)
        v10 == SetUint16(v9, 32, b.numberOfChannels * 2)
        v11 == SetUint16(v10, 34, 16)
        v12 == writeString(v11, 36, TagData)
    IN  SetUint32(v12, 40, len - 40)

\* the 44-byte header written at lines 109-127, on a zero-filled view
WavHeader(b, len) ==
    LET v0  == [k \in 0..(len - 1) |-> 0]
        v1  == writeString(v0, 0, TagRIFF)
        v2  == SetUint32(v1, 4, len - 8)
        v3  == writeString(v2, 8, TagWAVE)
        v4  == writeString(v3, 12, TagFmt)
        v5  == SetUint32(v4, 16, 16)
        v6  == SetUint16(v5, 20, 1)
        v7  == SetUint16(v6, 22, b.numberOfChannels)
        v8  == SetUint32(v7, 24, b.sampleRate)
        v9  == SetUint32(v8, 28, b.sampleRate * 2 * b.numberOfChannels)
        v10 == SetUint16(v9, 32, b.numberOfChannels * 2)
        v11 == SetUint16(v10, 34, 16)
        v12 == writeString(v11, 36, TagData)
        \* pos is 40 here: length - pos - 4
    IN  SetUint32(v12, 40, len - 40 - 4)

\* the encoder is not running (the other utilities' specifications)
WavOff ==
    /\ buffer = <<>>
    /\ wavPc = "off"
    /\ length = 0
    /\ view = <<>>
    /\ pos = 0
    /\ offset = 0
    /\ i = 0

WavInit ==
    /\ buffer \in AudioBuffers
    /\ wavPc = "start"
    /\ length = 0
    /\ view = <<>>
    /\ pos = 0
    /\ offset = 0
    /\ i = 0

\* lines 93-132: allocate the buffer, write the header, collect the channels
WriteHeader ==
    /\ wavPc = "start"
    /\ length' = WavLength(buffer)
    /\ view' = WavHeader(buffer, WavLength(buffer))
    /\ pos' = 44
    /\ offset' = 0
    /\ i' = 0
    /\ wavPc' = "samples"
    /\ UNCHANGED <<buffer, fsVars, revVars, srtVars, appVars, studioVars>>

\* mutant: the samples are written channel after channel (planar) instead
\* of frame after frame
WriteSample_Planar ==
    /\ wavPc = "samples"
    /\ i > 0 \/ pos < length
    /\ i < buffer.numberOfChannels
    /\ pos + 2 <= length
    /\ offset < buffer.length
    /\ LET n == (pos - 44) \div 2
           sample == Clamp(buffer.channelData[(n \div buffer.length) + 1]
                                             [(n % buffer.length) + 1])
       IN  view' = SetInt16(view, pos, Quantize(sample))
    /\ pos' = pos + 2
    /\ IF i + 1 < buffer.numberOfChannels
       THEN i' = i + 1 /\ offset' = offset
       ELSE i' = 0 /\ offset' = offset + 1
    /\ UNCHANGED <<buffer, wavPc, length, fsVars, revVars, srtVars, appVars, studioVars>>

\* one iteration of the inner for loop (lines 135-140), entered from the
\* while test (line 134) when i = 0; the last iteration of the for loop
\* also performs offset++ (line 141).  A setInt16 that does not fit in the
\* buffer throws a RangeError and a read past the channel data yields no
\* sample: the function writes nothing more in either case.
WriteSample ==
    /\ wavPc = "samples"
    /\ i > 0 \/ pos < length
    /\ i < buffer.numberOfChannels
    /\ pos + 2 <= length
    /\ offset < buffer.length
    /\ LET sample == Clamp(buffer.channelData[i + 1][offset + 1])
       IN  view' = SetInt16(view, pos, Quantize(sample))
    /\ pos' = pos + 2
    /\ IF i + 1 < buffer.numberOfChannels
       THEN i' = i + 1 /\ offset' = offset
       ELSE i' = 0 /\ offset' = offset + 1
    /\ UNCHANGED <<buffer, wavPc, length, fsVars, revVars, srtVars, appVars, studioVars>>

\* the while test fails (line 134): the bytes are handed to the Blob
\* (line 145)
WavDone ==
    /\ wavPc = "samples"
    /\ i = 0
    /\ ~(pos < length)
    /\ wavPc' = "done"
    /\ UNCHANGED <<buffer, length, view, pos, offset, i, fsVars, revVars, srtVars, appVars, studioVars>>

WavNext == WriteHeader \/ WriteSample \/ WavDone

\* ------------------------------------------------------------------------
\* extractVideoFrames
\*
\* Times are JavaScript numbers: IEEE-754 binary64 values, here the
\* non-negative finite normal ones.  A number is [exp, hi, lo] with the
\* value (hi * 2^27 + lo) * 2^(exp - 52), its 53-bit significand
\* hi * 2^27 + lo lying in [2^52, 2^53); zero is [0, 0, 0].  Results are
\* computed with three more binary digits (guard, round and sticky) in a
\* 56-digit natural number [h, l] = h * 2^28 + l and rounded to nearest,
\* ties to even, as the hardware does.
\* ------------------------------------------------------------------------

Message_FrameLoad == "Failed to load video file for frame extraction."

\* the number 0
Zero == [exp |-> 0, hi |-> 0, lo |-> 0]

\* the number of binary digits of a positive integer below 2^26
BitLength(n) == CHOOSE len \in 1..26 : 2^(len - 1) <= n /\ n < 2^len

\* a significand with the three extra digits: (hi * 2^27 + lo) * 8
Wide(x) == [h |-> x.hi * 4 + x.lo \div 2^25, l |-> (x.lo % 2^25) * 8]

\* w shifted right by d digits; a digit 1 among those dropped is kept in
\* the last digit (sticky)
ShiftRightSticky(w, d) ==
    LET h1 == IF d < 28 THEN w.h \div 2^d ELSE 0
        l1 == IF d < 28 THEN w.l \div 2^d + (w.h % 2^d) * 2^(28 - d)
              ELSE IF d < 56 THEN w.h \div 2^(d - 28)
              ELSE 0
        lost == IF d < 28 THEN w.l % 2^d # 0
                ELSE IF d < 56 THEN w.l # 0 \/ w.h % 2^(d - 28) # 0
                ELSE w.l # 0 \/ w.h # 0
    IN  [h |-> h1, l |-> IF lost /\ l1 % 2 = 0 THEN l1 + 1 ELSE l1]

\* the number nearest to w / 8 * 2^(e - 52), ties to even, for a w of
\* exactly 56 digits
RoundToDouble(w, e) ==
    LET mhi == w.h \div 4
        mlo == (w.h % 4) * 2^25 + w.l \div 8
        low == w.l % 8
        up == low > 4 \/ (low = 4 /\ mlo % 2 = 1)
        lo1 == IF up THEN mlo + 1 ELSE mlo
        hi1 == IF lo1 = 2^27 THEN mhi + 1 ELSE mhi
    IN  [exp |-> IF hi1 = 2^26 THEN e + 1 ELSE e,
         hi  |-> IF hi1 = 2^26 THEN 2^25 ELSE hi1,
         lo  |-> IF lo1 = 2^27 THEN 0 ELSE lo1]

\* the number with an integer value (video.duration of a clip of n seconds)
Double(n) ==
    IF n = 0 THEN Zero
    ELSE [exp |-> BitLength(n) - 1, hi |-> n * 2^(26 - BitLength(n)), lo |-> 0]

\* a / n for an integer n in 1..15: long division of the significand, then
\* of the remainder for the digits the quotient lacks of 56
DoubleDiv(a, n) ==
    IF a = Zero THEN Zero
    ELSE LET q1 == a.hi \div n
             t == (a.hi % n) * 2^27 + a.lo
             q2 == t \div n
             r2 == t % n
             c == 26 - BitLength(q1)
             k == c + 3
             w == [h |-> q1 * 2^(k - 1) + q2 \div 2^(28 - k),
                   l |-> (q2 % 2^(28 - k)) * 2^k + (r2 * 2^k) \div n]
             sticky == (r2 * 2^k) % n # 0
         IN  RoundToDouble(IF sticky /\ w.l % 2 = 0
                           THEN [w EXCEPT !.l = w.l + 1] ELSE w,
                           a.exp - c)

\* a + b
DoubleAdd(a, b) ==
    IF a = Zero THEN b
    ELSE IF b = Zero THEN a
    ELSE LET big == IF a.exp >= b.exp THEN a ELSE b
             small == IF a.exp >= b.exp THEN b ELSE a
             x == Wide(big)
             y == ShiftRightSticky(Wide(small), big.exp - small.exp)
             l == x.l + y.l
             sum == [h |-> x.h + y.h + l \div 2^28, l |-> l % 2^28]
         IN  IF sum.h >= 2^28
             THEN RoundToDouble(ShiftRightSticky(sum, 1), big.exp + 1)
             ELSE RoundToDouble(sum, big.exp)

\* a < b
DoubleLess(a, b) ==
    IF b = Zero THEN FALSE
    ELSE IF a = Zero THEN TRUE
    ELSE \/ a.exp < b.exp
         \/ a.exp = b.exp /\ a.hi < b.hi
         \/ a.exp = b.exp /\ a.hi = b.hi /\ a.lo < b.lo

\* const interval = duration / numberOfFrames
Interval(dur, n) == DoubleDiv(dur, n)

\* mutant: the interval is not accumulated (currentTime = interval)
AdvanceTime_NoAccumulate(ct, iv) == iv

\* currentTime += interval
AdvanceTime(ct, iv) == DoubleAdd(ct, iv)

\* Math.min(currentTime, duration)
SeekTarget(ct, dur) == IF DoubleLess(dur, ct) THEN dur ELSE ct

\* resolve(value) / reject(error): a settled promise stays as it is
Settle(st, val, newSt, newVal) ==
    IF st = "pending" THEN <<newSt, newVal>> ELSE <<st, val>>

\* the sampler is not running (the other utilities' specifications)
FsOff ==
    /\ numberOfFrames = 0
    /\ videoDuration = 0
    /\ duration = Zero
    /\ interval = Zero
    /\ context = FALSE
    /\ videoState = "off"
    /\ videoError = FALSE
    /\ videoCurrentTime = Zero
    /\ seekPending = FALSE
    /\ seeksIssued = 0
    /\ currentTime = Zero
    /\ framesExtracted = 0
    /\ frames = <<>>
    /\ urlRevocations = 0
    /\ promiseState = "none"
    /\ promiseValue = <<>>

FsInit ==
    /\ numberOfFrames \in 1..MaxNumberOfFrames
    /\ videoDuration \in 0..MaxDuration
    /\ duration = Zero
    /\ interval = Zero
    /\ context \in BOOLEAN
    /\ videoState = "none"
    /\ videoError = FALSE
    /\ videoCurrentTime = Zero
    /\ seekPending = FALSE
    /\ seeksIssued = 0
    /\ currentTime = Zero
    /\ framesExtracted = 0
    /\ frames = <<>>
    /\ urlRevocations = 0
    /\ promiseState = "none"
    /\ promiseValue = <<>>

\* lines 220-229 and 259: the call creates the promise, the video and
\* canvas elements and the object URL, and installs the handlers
ExtractVideoFrames ==
    /\ videoState = "none"
    /\ videoState' = "loading"
    /\ promiseState' = "pending"
    /\ UNCHANGED <<numberOfFrames, videoDuration, duration, interval, context, videoError,
                   videoCurrentTime, seekPending, seeksIssued, currentTime,
                   framesExtracted, frames, urlRevocations, promiseValue,
                   wavVars, revVars, srtVars, appVars, studioVars>>

\* video.onloadedmetadata (lines 231-257)
OnLoadedMetadata ==
    /\ videoState = "loading"
    /\ ~videoError
    /\ videoState' = "loaded"
    /\ duration' = Double(videoDuration)
    /\ interval' = Interval(duration', numberOfFrames)
    /\ currentTime' = Zero
    /\ framesExtracted' = 0
    /\ videoCurrentTime' = Zero
    /\ seekPending' = TRUE
    /\ seeksIssued' = seeksIssued + 1
    /\ UNCHANGED <<numberOfFrames, videoDuration, context, videoError,
                   frames, urlRevocations, promiseState, promiseValue,
                   wavVars, revVars, srtVars, appVars, studioVars>>

\* mutant: the last capture resolves without releasing the object URL
CaptureFrame_NoRevoke ==
    /\ videoState = "loaded"
    /\ seekPending
    /\ LET drawn == IF context THEN Append(frames, videoCurrentTime)
                    ELSE frames
           extracted == framesExtracted + 1
       IN  /\ frames' = drawn
           /\ framesExtracted' = extracted
           /\ IF extracted >= numberOfFrames
              THEN /\ urlRevocations' = urlRevocations
                   /\ promiseState' =
                          Settle(promiseState, promiseValue, "fulfilled", drawn)[1]
                   /\ promiseValue' =
                          Settle(promiseState, promiseValue, "fulfilled", drawn)[2]
                   /\ seekPending' = FALSE
                   /\ UNCHANGED <<currentTime, videoCurrentTime, seeksIssued>>
              ELSE /\ currentTime' = AdvanceTime(currentTime, interval)
                   /\ videoCurrentTime' =
                          SeekTarget(currentTime', duration)
                   /\ seekPending' = TRUE
                   /\ seeksIssued' = seeksIssued + 1
                   /\ UNCHANGED <<urlRevocations, promiseState, promiseValue>>
    /\ UNCHANGED <<numberOfFrames, videoDuration, duration, interval, context, videoState,
                   videoError, wavVars, revVars, srtVars, appVars, studioVars>>

\* mutant: the next seek is issued after every capture, the last one
\* included
CaptureFrame_SeeksAgain ==
    /\ videoState = "loaded"
    /\ seekPending
    /\ framesExtracted <= MaxNumberOfFrames
    /\ LET drawn == IF context THEN Append(frames, videoCurrentTime)
                    ELSE frames
           extracted == framesExtracted + 1
       IN  /\ frames' = drawn
           /\ framesExtracted' = extracted
           /\ IF extracted >= numberOfFrames
              THEN /\ urlRevocations' = urlRevocations + 1
                   /\ promiseState' =
                          Settle(promiseState, promiseValue, "fulfilled", drawn)[1]
                   /\ promiseValue' =
                          Settle(promiseState, promiseValue, "fulfilled", drawn)[2]
                   /\ currentTime' = AdvanceTime(currentTime, interval)
                   /\ videoCurrentTime' =
                          SeekTarget(currentTime', duration)
                   /\ seekPending' = TRUE
                   /\ seeksIssued' = seeksIssued + 1
              ELSE /\ currentTime' = AdvanceTime(currentTime, interval)
                   /\ videoCurrentTime' =
                          SeekTarget(currentTime', duration)
                   /\ seekPending' = TRUE
                   /\ seeksIssued' = seeksIssued + 1
                   /\ UNCHANGED <<urlRevocations, promiseState, promiseValue>>
    /\ UNCHANGED <<numberOfFrames, videoDuration, duration, interval, context, videoState,
                   videoError, wavVars, revVars, srtVars, appVars, studioVars>>

\* mutant: the sampler stops one capture late
CaptureFrame_OneMore ==
    /\ videoState = "loaded"
    /\ seekPending
    /\ LET drawn == IF context THEN Append(frames, videoCurrentTime)
                    ELSE frames
           extracted == framesExtracted + 1
       IN  /\ frames' = drawn
           /\ framesExtracted' = extracted
           /\ IF extracted > numberOfFrames
              THEN /\ urlRevocations' = urlRevocations + 1
                   /\ promiseState' =
                          Settle(promiseState, promiseValue, "fulfilled", drawn)[1]
                   /\ promiseValue' =
                          Settle(promiseState, promiseValue, "fulfilled", drawn)[2]
                   /\ seekPending' = FALSE
                   /\ UNCHANGED <<currentTime, videoCurrentTime, seeksIssued>>
              ELSE /\ currentTime' = AdvanceTime(currentTime, interval)
                   /\ videoCurrentTime' =
                          SeekTarget(currentTime', duration)
                   /\ seekPending' = TRUE
                   /\ seeksIssued' = seeksIssued + 1
                   /\ UNCHANGED <<urlRevocations, promiseState, promiseValue>>
    /\ UNCHANGED <<numberOfFrames, videoDuration, duration, interval, context, videoState,
                   videoError, wavVars, revVars, srtVars, appVars, studioVars>>

\* video.onseeked = captureFrame (lines 239-253)
CaptureFrame ==
    /\ videoState = "loaded"
    /\ seekPending
    /\ LET drawn == IF context THEN Append(frames, videoCurrentTime)
                    ELSE frames
           extracted == framesExtracted + 1
       IN  /\ frames' = drawn
           /\ framesExtracted' = extracted
           /\ IF extracted >= numberOfFrames
              THEN /\ urlRevocations' = urlRevocations + 1
                   /\ promiseState' =
                          Settle(promiseState, promiseValue, "fulfilled", drawn)[1]
                   /\ promiseValue' =
                          Settle(promiseState, promiseValue, "fulfilled", drawn)[2]
                   /\ seekPending' = FALSE
                   /\ UNCHANGED <<currentTime, videoCurrentTime, seeksIssued>>
              ELSE /\ currentTime' = AdvanceTime(currentTime, interval)
                   /\ videoCurrentTime' =
                          SeekTarget(currentTime', duration)
                   /\ seekPending' = TRUE
                   /\ seeksIssued' = seeksIssued + 1
                   /\ UNCHANGED <<urlRevocations, promiseState, promiseValue>>
    /\ UNCHANGED <<numberOfFrames, videoDuration, duration, interval, context, videoState,
                   videoError, wavVars, revVars, srtVars, appVars, studioVars>>

\* mutant: the error handler releases the URL but does not reject
OnError_NoReject ==
    /\ videoState \in {"loading", "loaded"}
    /\ ~videoError
    /\ videoError' = TRUE
    /\ urlRevocations' = urlRevocations + 1
    /\ UNCHANGED <<numberOfFrames, videoDuration, duration, interval, context, videoState,
                   videoCurrentTime, seekPending, seeksIssued, currentTime,
                   framesExtracted, frames, promiseState, promiseValue,
                   wavVars, revVars, srtVars, appVars, studioVars>>

\* video.onerror (lines 259-262)
OnError ==
    /\ videoState \in {"loading", "loaded"}
    /\ ~videoError
    /\ videoError' = TRUE
    /\ urlRevocations' = urlRevocations + 1
    /\ promiseState' =
           Settle(promiseState, promiseValue, "rejected", Message_FrameLoad)[1]
    /\ promiseValue' =
           Settle(promiseState, promiseValue, "rejected", Message_FrameLoad)[2]
    /\ UNCHANGED <<numberOfFrames, videoDuration, duration, interval, context, videoState,
                   videoCurrentTime, seekPending, seeksIssued, currentTime,
                   framesExtracted, frames, wavVars, revVars, srtVars, appVars, studioVars>>

FsNext == ExtractVideoFrames \/ OnLoadedMetadata \/ CaptureFrame \/ OnError

\* ------------------------------------------------------------------------
\* reviseScriptWithAI (services/geminiService)
\* ------------------------------------------------------------------------

\* TranscriptSegment values explored: { start, end, text }
Segments == [start : {0, 2}, end : {3}, text : {"um hello", "Hello."}]

\* sequences over S of length at most n
SeqUpTo(S, n) == UNION { [1..k -> S] : k \in 0..n }

Transcripts == SeqUpTo(Segments, MaxTranscriptLen)

\* the outcomes of the generateContent request followed by
\* JSON.parse(response.text.trim()): the request throws, the text is not
\* JSON, the JSON is null, the JSON is an object that is not an array, or
\* the JSON is an array
AiResponses ==
    {[kind |-> "apiError"], [kind |-> "invalidJson"], [kind |-> "null"],
     [kind |-> "object"]}
    \cup { [kind |-> "array", data |-> d] : d \in SeqUpTo(Segments, MaxResponseLen) }

Message_Revision == "Failed to get a valid revision from the AI. Please try again."

\* mutant: a response with more elements than the transcript is cut to
\* the transcript's length instead of being refused
ReviseScriptWithAI_Truncating(t, r) ==
    IF r.kind = "array" /\ Len(r.data) >= Len(t)
    THEN [state |-> "fulfilled", value |-> SubSeq(r.data, 1, Len(t))]
    ELSE [state |-> "rejected", value |-> Message_Revision]

\* lines 51-74: every throw inside the try (the request failing,
\* JSON.parse failing, reading .length of null, the format check) is caught
\* and rethrown as the one revision error; otherwise the parsed array is
\* returned as it is
ReviseScriptWithAI(t, r) ==
    IF r.kind \in {"apiError", "invalidJson", "null"}
    THEN [state |-> "rejected", value |-> Message_Revision]
    ELSE IF r.kind # "array" \/ Len(r.data) # Len(t)
    THEN [state |-> "rejected", value |-> Message_Revision]
    ELSE [state |-> "fulfilled", value |-> r.data]

\* the wrapper is not running (the other utilities' specifications)
RevOff ==
    /\ transcript = <<>>
    /\ aiResponse = [kind |-> "apiError"]
    /\ revPc = "off"
    /\ revResult = [state |-> "none", value |-> <<>>]

RevInit ==
    /\ transcript \in Transcripts
    /\ aiResponse \in AiResponses
    /\ revPc = "idle"
    /\ revResult = [state |-> "none", value |-> <<>>]

\* lines 48-59: the call builds the prompt and sends the request
CallRevise ==
    /\ revPc = "idle"
    /\ revPc' = "awaiting"
    /\ revResult' = [state |-> "pending", value |-> <<>>]
    /\ UNCHANGED <<transcript, aiResponse, wavVars, fsVars, srtVars, appVars, studioVars>>

\* lines 52-74: the request completes and the function returns or throws
ReviseSettles ==
    /\ revPc = "awaiting"
    /\ revPc' = "done"
    /\ revResult' = ReviseScriptWithAI(transcript, aiResponse)
    /\ UNCHANGED <<transcript, aiResponse, wavVars, fsVars, srtVars, appVars, studioVars>>

RevNext == CallRevise \/ ReviseSettles

\* ------------------------------------------------------------------------
\* downloadAsSrt (components/ComparisonTranscriptDisplay.tsx, and the same
\* function in components/TranscriptDisplay.tsx)
\*
\* A segment time of t milliseconds stands for the number t / 1000 of
\* seconds.
\* ------------------------------------------------------------------------

\* segments explored: starts 0 s, 4.5 s, 61.25 s and -0.5 s, ends 7.2 s
\* and 3725.999 s
SrtSegments ==
    [start : {0, 4500, 61250, -500}, end : {7200, 3725999},
     text : {"hello", "Hi there."}]

SrtTranscripts == SeqUpTo(SrtSegments, MaxSrtLen)

\* downloadAsSrt returned before building anything
NoDownload == "(no download)"

\* a number below 100 as two digits
Pad2(n) == IF n < 10 THEN "0" \o ToString(n) ELSE ToString(n)

\* a number below 1000 as three digits
Pad3(n) ==
    IF n < 10 THEN "00" \o ToString(n)
    ELSE IF n < 100 THEN "0" \o ToString(n)
    ELSE ToString(n)

\* local time zone offsets at the epoch: UTC, UTC+01:00, UTC-05:00,
\* UTC+05:30 and UTC-00:44:30 (Africa/Monrovia in 1970)
TimeZoneOffsets == {0, 3600000, -18000000, 19800000, -2670000}

MsPerDay == 86400000

\* const date = new Date(0); date.setSeconds(seconds): the time value of
\* the date (ms).  setSeconds works on the local time of the date: with
\* t = LocalTime(0) = tza it keeps the day, hour, minute and millisecond of
\* t, replaces the seconds by ToIntegerOrInfinity(seconds) (MakeTime,
\* MakeDate) and converts back with UTC(); the zone's offset is tza on
\* both sides of the conversion.
SetSeconds(ms, tza) ==
    LET t == tza
        day == t \div MsPerDay
        timeInDay == t % MsPerDay
        hour == timeInDay \div 3600000
        min == (timeInDay \div 60000) % 60
        milli == timeInDay % 1000
        s == ms \div 1000
    IN  (day * MsPerDay + hour * 3600000 + min * 60000 + s * 1000 + milli) - tza

\* date.toISOString().substring(11, 23): "HH:MM:SS.mmm" of the time value,
\* with the separator before the milliseconds given by sep
IsoTimeOfDay(tv, sep) ==
    Pad2((tv \div 3600000) % 24) \o ":" \o Pad2((tv \div 60000) % 60) \o ":"
        \o Pad2((tv \div 1000) % 60) \o sep \o Pad3(tv % 1000)

\* formatSrtTime (lines 26-32); timeStr.replace('.', ',') puts the comma
formatSrtTime(ms, tza) ==
    IF ms < 0 THEN "00:00:00,000"
    ELSE IsoTimeOfDay(SetSeconds(ms, tza), ",")

\* the block of the segment at index (0-based) (lines 35-37)
SrtBlock(segment, index, tza) ==
    ToString(index + 1) \o "\n" \o formatSrtTime(segment.start, tza) \o " --> "
        \o formatSrtTime(segment.end, tza) \o "\n" \o segment.text \o "\n"

\* blocks.join('\n') from block k on (k counts from 1)
RECURSIVE SrtJoinFrom(_, _, _)
SrtJoinFrom(t, k, tza) ==
    IF k > Len(t) THEN ""
    ELSE IF k = Len(t) THEN SrtBlock(t[k], k - 1, tza)
    ELSE SrtBlock(t[k], k - 1, tza) \o "\n" \o SrtJoinFrom(t, k + 1, tza)

\* const content = transcript.map(...).join('\n') (lines 34-38)
SrtContent(t, tza) == SrtJoinFrom(t, 1, tza)

\* the export is not running (the other utilities' specifications)
SrtOff ==
    /\ srtTranscript = <<>>
    /\ srtPc = "off"
    /\ srtContent = NoDownload
    /\ localTZA = 0

SrtInit ==
    /\ srtTranscript \in SrtTranscripts
    /\ srtPc = "idle"
    /\ srtContent = NoDownload
    /\ localTZA \in TimeZoneOffsets

\* downloadAsSrt (lines 23-49): nothing is downloaded for an empty
\* transcript
DownloadAsSrt ==
    /\ srtPc = "idle"
    /\ srtPc' = "done"
    /\ srtContent' = IF Len(srtTranscript) = 0 THEN NoDownload
                     ELSE SrtContent(srtTranscript, localTZA)
    /\ UNCHANGED <<srtTranscript, localTZA, wavVars, fsVars, revVars, appVars, studioVars>>

SrtNext == DownloadAsSrt

\* ------------------------------------------------------------------------
\* App (src/App.tsx): React state, resetState, handleProcessVideo,
\* handleProcessUrl and startProcessing.
\*
\* A promise continuation (the code after an await) runs as a microtask,
\* before the next event is handled: while a continuation of the run is
\* ready no other event is taken.  The frame sampler of the run is the
\* sampler modelled above; a sampler or a request left behind by a run
\* that has ended cannot reach the state any more and is dropped when the
\* next run starts.
\* ------------------------------------------------------------------------

\* extractVideoFrames(file, 5)
FramesPerRun == 5

\* null, and a value that is not null
Null == [null |-> TRUE]

Some(v) == [null |-> FALSE, value |-> v]

\* video duration of the submitted files (seconds)
AppDurations == {1}

NoCalls == [audio |-> 0, frames |-> 0, transcribe |-> 0, revise |-> 0, analyze |-> 0]

\* a task: its state, the value it fulfilled with and the message of the
\* error it rejected with
NoTask == [state |-> "none", value |-> <<>>, message |-> ""]

\* fetch(url) has not answered
NoResponse == [kind |-> "none", ok |-> FALSE, status |-> 0, statusText |-> ""]

\* response.blob() has not been called
NoBlob == [state |-> "none", type |-> <<>>]

NoTextTask == [state |-> "none", value |-> "", message |-> ""]

\* the task of a call that returned [state, value], value being the
\* result or the error's message
TaskOf(result) ==
    IF result.state = "fulfilled"
    THEN [state |-> "fulfilled", value |-> result.value, message |-> ""]
    ELSE [state |-> result.state, value |-> <<>>, message |-> result.value]

Message_Audio == "Could not process audio from the video file. It may be corrupt or in an unsupported format."

Message_Transcribe == "Failed to generate a transcript from the audio. The AI may not have been able to process the audio data."

Message_Analysis == "Failed to get a vision analysis from the AI. Please try again."

\* the App is not mounted (the utilities' specifications)
AppOff ==
    /\ videoSrc = 0
    /\ isLoading = FALSE
    /\ loadingMessage = ""
    /\ originalTranscript = Null
    /\ revisedTranscript = Null
    /\ visionAnalysis = Null
    /\ error = Null
    /\ revisingSegments = <<>>
    /\ activeSegmentIndex = -1
    /\ timeUpdateListener = FALSE
    /\ runPc = "off"
    /\ runInput = [source |-> "none"]
    /\ fetchResponse = NoResponse
    /\ fetchBlob = NoBlob
    /\ audioTask = "none"
    /\ transcribeTask = "none"
    /\ localTranscript = <<>>
    /\ reviseTask = NoTask
    /\ analysisTask = NoTextTask
    /\ calls = NoCalls
    /\ urlsCreated = 0
    /\ urlsRevoked = {}
    /\ submissions = 0

\* the useState initial values (lines 162-171); no run has started
AppInit ==
    /\ videoSrc = 0
    /\ isLoading = FALSE
    /\ loadingMessage = ""
    /\ originalTranscript = Null
    /\ revisedTranscript = Null
    /\ visionAnalysis = Null
    /\ error = Null
    /\ revisingSegments = <<>>
    /\ activeSegmentIndex = -1
    /\ timeUpdateListener = FALSE
    /\ runPc = "idle"
    /\ runInput = [source |-> "none"]
    /\ fetchResponse = NoResponse
    /\ fetchBlob = NoBlob
    /\ audioTask = "none"
    /\ transcribeTask = "none"
    /\ localTranscript = <<>>
    /\ reviseTask = NoTask
    /\ analysisTask = NoTextTask
    /\ calls = NoCalls
    /\ urlsCreated = 0
    /\ urlsRevoked = {}
    /\ submissions = 0

\* the effect of lines 190-218, run after a render in which videoSrc or
\* originalTranscript changed: the listener of the previous run of the
\* effect is removed, and a new one is registered if the player is mounted
\* (it is in the studio view only, line 408) and the transcript is not
\* empty
EffectRegisters(src, loading, original) ==
    /\ src # 0
    /\ ~loading
    /\ original # Null
    /\ Len(original.value) > 0

\* the VideoInput is rendered and enabled (line 389, VideoInput.tsx 46-91)
CanSubmit == videoSrc = 0 /\ ~isLoading

\* mutant: Start Over is offered as soon as the player has a source
CanReset_WhileLoading == videoSrc # 0

\* the Start Over button is rendered (lines 408-418)
CanReset == videoSrc # 0 /\ ~isLoading

\* Promise.all([extractAndEncodeAudio(file), extractVideoFrames(file, 5)])
\* has settled and the code after the await (or the catch) is ready to run
ExtractionSettled ==
    /\ runPc = "extracting"
    /\ \/ audioTask = "rejected"
       \/ promiseState = "rejected"
       \/ audioTask = "fulfilled" /\ promiseState = "fulfilled"

\* Promise.all([reviseScriptWithAI(...), analyzeScriptAndVision(...)]) has
\* settled
RevisionSettled ==
    /\ runPc = "revising"
    /\ \/ reviseTask.state = "rejected"
       \/ analysisTask.state = "rejected"
       \/ reviseTask.state = "fulfilled" /\ analysisTask.state = "fulfilled"

\* no continuation of the run is waiting to run
NoContinuationReady == ~ExtractionSettled /\ ~RevisionSettled

\* mutant: resetState clears videoSrc without revoking the object URL
RevokedByReset_Never(src, revoked) == revoked

\* URL.revokeObjectURL(videoSrc) of resetState (lines 175-177)
RevokedByReset(src, revoked) ==
    IF src # 0 THEN revoked \cup {src} ELSE revoked

\* resetState (lines 174-187), from the Start Over button
ResetState ==
    /\ runPc # "off"
    /\ CanReset
    /\ urlsRevoked' = RevokedByReset(videoSrc, urlsRevoked)
    /\ videoSrc' = 0
    /\ isLoading' = FALSE
    /\ loadingMessage' = ""
    /\ originalTranscript' = Null
    /\ revisedTranscript' = Null
    /\ visionAnalysis' = Null
    /\ error' = Null
    /\ revisingSegments' = <<>>
    /\ activeSegmentIndex' = -1
    /\ timeUpdateListener' = FALSE
    /\ runPc' = "idle"
    /\ UNCHANGED <<runInput, fetchResponse, fetchBlob, audioTask, transcribeTask,
                   localTranscript, reviseTask, analysisTask, calls,
                   urlsCreated, submissions,
                   wavVars, fsVars, revVars, srtVars, studioVars>>

\* extractVideoFrames(file, 5) is called (lines 220-229): a new sampler
\* for a file of duration d, with or without a drawing context
SamplerStarted(d, ctx) ==
    /\ numberOfFrames' = FramesPerRun
    /\ videoDuration' = d
    /\ duration' = Zero
    /\ interval' = Zero
    /\ context' = ctx
    /\ videoState' = "loading"
    /\ videoError' = FALSE
    /\ videoCurrentTime' = Zero
    /\ seekPending' = FALSE
    /\ seeksIssued' = 0
    /\ currentTime' = Zero
    /\ framesExtracted' = 0
    /\ frames' = <<>>
    /\ urlRevocations' = 0
    /\ promiseState' = "pending"
    /\ promiseValue' = <<>>

\* startProcessing up to its first await (lines 281-290): the player URL
\* is created and both extractions are started
ProcessingStarted(d, ctx) ==
    /\ urlsCreated' = urlsCreated + 1
    /\ videoSrc' = urlsCreated + 1
    /\ loadingMessage' = "Extracting audio & keyframes..."
    /\ audioTask' = "running"
    /\ SamplerStarted(d, ctx)
    /\ calls' = [NoCalls EXCEPT !.audio = 1, !.frames = 1]
    /\ transcribeTask' = "none"
    /\ localTranscript' = <<>>
    /\ reviseTask' = NoTask
    /\ analysisTask' = NoTextTask
    /\ runPc' = "extracting"

\* mutant: the failure is recorded but the loading state is not left
RunFailed_KeepsLoading(message) ==
    /\ error' = Some("Processing failed: " \o message)
    /\ isLoading' = isLoading
    /\ loadingMessage' = loadingMessage
    /\ runPc' = "ended"

\* the catch and finally blocks of startProcessing (lines 304-311)
RunFailed(message) ==
    /\ error' = Some("Processing failed: " \o message)
    /\ isLoading' = FALSE
    /\ loadingMessage' = ""
    /\ runPc' = "ended"

\* handleProcessVideo (lines 314-319) with startProcessing up to its first
\* await; resetState finds videoSrc null here
HandleProcessVideo ==
    /\ runPc # "off"
    /\ CanSubmit
    /\ NoContinuationReady
    /\ submissions < MaxSubmissions
    /\ submissions' = submissions + 1
    /\ urlsRevoked' = RevokedByReset(videoSrc, urlsRevoked)
    /\ originalTranscript' = Null
    /\ revisedTranscript' = Null
    /\ visionAnalysis' = Null
    /\ revisingSegments' = <<>>
    /\ activeSegmentIndex' = -1
    /\ timeUpdateListener' = FALSE
    /\ isLoading' = TRUE
    /\ error' = Null
    /\ runInput' = [source |-> "file"]
    /\ fetchResponse' = NoResponse
    /\ fetchBlob' = NoBlob
    /\ \E d \in AppDurations, ctx \in BOOLEAN : ProcessingStarted(d, ctx)
    /\ UNCHANGED <<wavVars, revVars, srtVars, studioVars>>

\* extractAndEncodeAudio settles (lines 267-278): with the WAV payload, or
\* with the one audio error
AudioSettles ==
    /\ audioTask = "running"
    /\ NoContinuationReady
    /\ \E outcome \in {"fulfilled", "rejected"} : audioTask' = outcome
    /\ UNCHANGED <<videoSrc, isLoading, loadingMessage, originalTranscript,
                   revisedTranscript, visionAnalysis, error, revisingSegments,
                   activeSegmentIndex, timeUpdateListener, runPc, runInput, fetchResponse, fetchBlob,
                   transcribeTask, localTranscript, reviseTask, analysisTask,
                   calls, urlsCreated, urlsRevoked, submissions,
                   wavVars, fsVars, revVars, srtVars, studioVars>>

\* the sampler's events, inside the App
AppLoadedMetadata == runPc # "off" /\ NoContinuationReady /\ OnLoadedMetadata

AppSeeked == runPc # "off" /\ NoContinuationReady /\ CaptureFrame

AppVideoError == runPc # "off" /\ NoContinuationReady /\ OnError

\* mutant: the transcription is started as soon as the audio is ready,
\* without waiting for the frames
ExtractionJoined_AudioOnly ==
    /\ runPc = "extracting"
    /\ audioTask # "running"
    /\ IF audioTask = "fulfilled"
       THEN /\ loadingMessage' = "Transcribing audio..."
            /\ transcribeTask' = "running"
            /\ calls' = [calls EXCEPT !.transcribe = @ + 1]
            /\ runPc' = "transcribing"
            /\ UNCHANGED <<error, isLoading>>
       ELSE /\ RunFailed(Message_Audio)
            /\ UNCHANGED <<transcribeTask, calls>>
    /\ UNCHANGED <<videoSrc, originalTranscript, revisedTranscript,
                   visionAnalysis, revisingSegments, activeSegmentIndex, timeUpdateListener,
                   runInput, fetchResponse, fetchBlob, audioTask, localTranscript,
                   reviseTask, analysisTask, urlsCreated, urlsRevoked,
                   submissions, wavVars, fsVars, revVars, srtVars, studioVars>>

\* the code after await Promise.all([audio, frames]) (lines 287-293), or
\* the catch when one of the two rejected
ExtractionJoined ==
    /\ ExtractionSettled
    /\ IF audioTask = "fulfilled" /\ promiseState = "fulfilled"
       THEN /\ loadingMessage' = "Transcribing audio..."
            /\ transcribeTask' = "running"
            /\ calls' = [calls EXCEPT !.transcribe = @ + 1]
            /\ runPc' = "transcribing"
            /\ UNCHANGED <<error, isLoading>>
       ELSE /\ RunFailed(IF audioTask = "rejected" THEN Message_Audio
                         ELSE promiseValue)
            /\ UNCHANGED <<transcribeTask, calls>>
    /\ UNCHANGED <<videoSrc, originalTranscript, revisedTranscript,
                   visionAnalysis, revisingSegments, activeSegmentIndex, timeUpdateListener,
                   runInput, fetchResponse, fetchBlob, audioTask, localTranscript,
                   reviseTask, analysisTask, urlsCreated, urlsRevoked,
                   submissions, wavVars, fsVars, revVars, srtVars, studioVars>>

\* the transcripts the transcription collaborator answers with
AppTranscripts ==
    { <<>>,
      <<[start |-> 0, end |-> 3, text |-> "um hello"]>>,
      <<[start |-> 0, end |-> 3, text |-> "um hello"],
        [start |-> 2, end |-> 3, text |-> "um hello"]>> }

\* a response that rewrites every text and keeps the times
Reworded(t) == [k \in 1..Len(t) |-> [t[k] EXCEPT !.text = "Hello."]]

\* a response that rewrites every text and moves every start
Retimed(t) == [k \in 1..Len(t) |-> [t[k] EXCEPT !.text = "Hello.", !.start = 2 - @]]

\* the responses of the revision request for transcript t: the request
\* fails, the JSON is not an array, or it is an array: reworded, retimed,
\* or one element short
AppAiResponses(t) ==
    {[kind |-> "apiError"], [kind |-> "object"],
     [kind |-> "array", data |-> Reworded(t)],
     [kind |-> "array", data |-> Retimed(t)],
     [kind |-> "array", data |-> SubSeq(t, 1, Len(t) - 1)]}

AnalysisText == "## Analysis"

\* transcribeAudio settles (part_000 lines 135-171) and startProcessing
\* continues (lines 293-300) or catches (lines 304-311)
TranscribeSettles ==
    /\ runPc = "transcribing"
    /\ transcribeTask = "running"
    /\ \/ /\ transcribeTask' = "rejected"
          /\ RunFailed(Message_Transcribe)
          /\ UNCHANGED <<originalTranscript, localTranscript, reviseTask,
                         analysisTask, calls>>
       \/ \E t \in AppTranscripts :
             /\ transcribeTask' = "fulfilled"
             /\ localTranscript' = t
             /\ originalTranscript' = Some(t)
             /\ loadingMessage' = "Analyzing script, vision, and revising..."
             /\ reviseTask' = [NoTask EXCEPT !.state = "running"]
             /\ analysisTask' = [NoTextTask EXCEPT !.state = "running"]
             /\ calls' = [calls EXCEPT !.revise = @ + 1, !.analyze = @ + 1]
             /\ runPc' = "revising"
             /\ UNCHANGED <<error, isLoading>>
    /\ timeUpdateListener' =
          IF originalTranscript' = originalTranscript THEN timeUpdateListener
          ELSE EffectRegisters(videoSrc, isLoading, originalTranscript')
    /\ UNCHANGED <<videoSrc, revisedTranscript, visionAnalysis,
                   revisingSegments, activeSegmentIndex, runInput,
                   fetchResponse, fetchBlob, audioTask, urlsCreated, urlsRevoked,
                   submissions, wavVars, fsVars, revVars, srtVars, studioVars>>

\* reviseScriptWithAI(transcript) settles (part_000 lines 48-75)
ReviseTaskSettles ==
    /\ reviseTask.state = "running"
    /\ NoContinuationReady
    /\ \E r \in AppAiResponses(localTranscript) :
          reviseTask' = TaskOf(ReviseScriptWithAI(localTranscript, r))
    /\ UNCHANGED <<videoSrc, isLoading, loadingMessage, originalTranscript,
                   revisedTranscript, visionAnalysis, error, revisingSegments,
                   activeSegmentIndex, timeUpdateListener, runPc, runInput, fetchResponse, fetchBlob,
                   audioTask, transcribeTask, localTranscript, analysisTask,
                   calls, urlsCreated, urlsRevoked, submissions,
                   wavVars, fsVars, revVars, srtVars, studioVars>>

\* analyzeScriptAndVision(transcript, frames) settles (part_000 lines
\* 93-120)
AnalysisSettles ==
    /\ analysisTask.state = "running"
    /\ NoContinuationReady
    /\ \/ analysisTask' = [NoTextTask EXCEPT !.state = "fulfilled",
                                             !.value = AnalysisText]
       \/ analysisTask' = [NoTextTask EXCEPT !.state = "rejected",
                                             !.message = Message_Analysis]
    /\ UNCHANGED <<videoSrc, isLoading, loadingMessage, originalTranscript,
                   revisedTranscript, visionAnalysis, error, revisingSegments,
                   activeSegmentIndex, timeUpdateListener, runPc, runInput, fetchResponse, fetchBlob,
                   audioTask, transcribeTask, localTranscript, reviseTask,
                   calls, urlsCreated, urlsRevoked, submissions,
                   wavVars, fsVars, revVars, srtVars, studioVars>>

\* the code after await Promise.all([revised, analysis]) (lines 297-302)
\* and the finally, or the catch when one of the two rejected
RevisionJoined ==
    /\ RevisionSettled
    /\ IF reviseTask.state = "fulfilled" /\ analysisTask.state = "fulfilled"
       THEN /\ revisedTranscript' = Some(reviseTask.value)
            /\ visionAnalysis' = Some(analysisTask.value)
            /\ isLoading' = FALSE
            /\ loadingMessage' = ""
            /\ runPc' = "ended"
            /\ UNCHANGED error
       ELSE /\ RunFailed(IF reviseTask.state = "rejected" THEN reviseTask.message
                         ELSE analysisTask.message)
            /\ UNCHANGED <<revisedTranscript, visionAnalysis>>
    /\ UNCHANGED <<videoSrc, originalTranscript, revisingSegments,
                   activeSegmentIndex, timeUpdateListener, runInput, fetchResponse, fetchBlob, audioTask,
                   transcribeTask, localTranscript, reviseTask, analysisTask,
                   calls, urlsCreated, urlsRevoked, submissions,
                   wavVars, fsVars, revVars, srtVars, studioVars>>

\* ---- handleProcessUrl (lines 321-355) ----

\* URLs typed in the form, as sequences of characters
Urls ==
    { <<"h","t","t","p",":","/","/","a","b">>,
      <<"H","T","T","P","S",":","/","/","a",".","c">>,
      <<"f","t","p",":","/","/","a","b">>,
      <<"h","t","t","p",":","/","/","a">>,
      <<"h","t","t","p",":","/","/",".","b">>,
      <<"h","t","t","p",":","/","/","a","b"," ","c">> }

Whitespace == {" ", "\n"}

LowerCase(c) ==
    CASE c = "H" -> "h" [] c = "T" -> "t" [] c = "P" -> "p" [] c = "S" -> "s"
      [] OTHER -> c

\* /^(https?:\/\/[^\s$.?#].[^\s]*)$/i .test(u)   (line 327)
UrlPatternTest(u) ==
    \E k \in {4, 5} :
       /\ Len(u) >= k + 5
       /\ [j \in 1..k |-> LowerCase(u[j])] = SubSeq(<<"h","t","t","p","s">>, 1, k)
       /\ SubSeq(u, k + 1, k + 3) = <<":", "/", "/">>
       /\ u[k + 4] \notin Whitespace \cup {"$", ".", "?", "#"}
       /\ u[k + 5] # "\n"
       /\ \A j \in (k + 6)..Len(u) : u[j] \notin Whitespace

\* s.startsWith(prefix)
StartsWith(s, prefix) ==
    Len(s) >= Len(prefix) /\ SubSeq(s, 1, Len(prefix)) = prefix

TypeVideoMp4 == <<"v","i","d","e","o","/","m","p","4">>

TypeTextHtml == <<"t","e","x","t","/","h","t","m","l">>

\* what fetch(url) answers: the request fails, or a response with ok,
\* status and statusText
FetchOutcomes ==
    { [kind |-> "networkError", ok |-> FALSE, status |-> 0, statusText |-> ""],
      [kind |-> "response", ok |-> FALSE, status |-> 404,
       statusText |-> "Not Found"],
      [kind |-> "response", ok |-> FALSE, status |-> 500,
       statusText |-> "Internal Server Error"],
      [kind |-> "response", ok |-> TRUE, status |-> 200, statusText |-> "OK"] }

\* what response.blob() answers: reading the body fails, or a blob with
\* its type
BlobOutcomes ==
    { [state |-> "failed", type |-> <<>>],
      [state |-> "read", type |-> TypeVideoMp4],
      [state |-> "read", type |-> TypeTextHtml],
      [state |-> "read", type |-> <<>>] }

Message_Url == "Please enter a valid, complete URL (e.g., https://example.com/video.mp4)."

Message_NotVideo == "The URL does not point to a valid video file. Please check the link."

Message_Fetch == "Failed to fetch"

\* the message of the TypeError of a body that cannot be read
Message_Body == "Failed to fetch"

Message_Status(r) ==
    "Server responded with " \o ToString(r.status) \o " " \o r.statusText \o "."

\* the error thrown when fetch has answered (lines 333-336), Null when
\* none is
FetchError(r) ==
    IF r.kind = "networkError" THEN Some(Message_Fetch)
    ELSE IF ~r.ok THEN Some(Message_Status(r))
    ELSE Null

\* mutant: the blob's type is not looked at
BlobError_NoMimeCheck(b) ==
    IF b.state = "failed" THEN Some(Message_Body)
    ELSE Null

\* the error thrown when response.blob() has settled (lines 338-341),
\* Null when none is
BlobError(b) ==
    IF b.state = "failed" THEN Some(Message_Body)
    ELSE IF ~StartsWith(b.type, <<"v","i","d","e","o","/">>) THEN Some(Message_NotVideo)
    ELSE Null

\* the catch of handleProcessUrl (lines 348-354)
UrlFailed(message) ==
    /\ error' = Some("Failed to process URL. " \o message)
    /\ isLoading' = FALSE
    /\ loadingMessage' = ""
    /\ runPc' = "ended"

\* handleProcessUrl up to its await of fetch (lines 321-333)
HandleProcessUrl ==
    /\ runPc # "off"
    /\ CanSubmit
    /\ NoContinuationReady
    /\ submissions < MaxSubmissions
    /\ submissions' = submissions + 1
    /\ urlsRevoked' = RevokedByReset(videoSrc, urlsRevoked)
    /\ videoSrc' = 0
    /\ originalTranscript' = Null
    /\ revisedTranscript' = Null
    /\ visionAnalysis' = Null
    /\ revisingSegments' = <<>>
    /\ activeSegmentIndex' = -1
    /\ timeUpdateListener' = FALSE
    /\ fetchResponse' = NoResponse
    /\ fetchBlob' = NoBlob
    /\ calls' = NoCalls
    /\ audioTask' = "none"
    /\ transcribeTask' = "none"
    /\ localTranscript' = <<>>
    /\ reviseTask' = NoTask
    /\ analysisTask' = NoTextTask
    /\ \E url \in Urls :
          /\ runInput' = [source |-> "url", url |-> url]
          /\ IF UrlPatternTest(url)
             THEN /\ isLoading' = TRUE
                  /\ error' = Null
                  /\ loadingMessage' = "Fetching video from URL..."
                  /\ runPc' = "fetching"
             ELSE UrlFailed(Message_Url)
    /\ UNCHANGED <<urlsCreated, wavVars, fsVars, revVars, srtVars, studioVars>>

\* fetch settles and handleProcessUrl continues (lines 333-338) up to
\* its await of response.blob(), or catches (lines 348-354)
FetchSettles ==
    /\ runPc = "fetching"
    /\ \E r \in FetchOutcomes :
          /\ fetchResponse' = r
          /\ IF FetchError(r) = Null
             THEN /\ fetchBlob' = [NoBlob EXCEPT !.state = "pending"]
                  /\ runPc' = "readingBody"
                  /\ UNCHANGED <<error, isLoading, loadingMessage>>
             ELSE /\ UrlFailed(FetchError(r).value)
                  /\ UNCHANGED fetchBlob
    /\ UNCHANGED <<videoSrc, originalTranscript, revisedTranscript,
                   visionAnalysis, revisingSegments, activeSegmentIndex, timeUpdateListener,
                   runInput, audioTask, transcribeTask, localTranscript,
                   reviseTask, analysisTask, calls, urlsCreated, urlsRevoked,
                   submissions, wavVars, fsVars, revVars, srtVars, studioVars>>

\* response.blob() settles and handleProcessUrl continues (lines 338-346)
\* into startProcessing, or catches (lines 348-354)
BlobSettles ==
    /\ runPc = "readingBody"
    /\ \E b \in BlobOutcomes :
          /\ fetchBlob' = b
          /\ IF BlobError(b) = Null
             THEN /\ \E d \in AppDurations, ctx \in BOOLEAN :
                        ProcessingStarted(d, ctx)
                  /\ UNCHANGED <<error, isLoading>>
             ELSE /\ UrlFailed(BlobError(b).value)
                  /\ UNCHANGED <<videoSrc, urlsCreated, audioTask,
                                 transcribeTask, localTranscript, reviseTask,
                                 analysisTask, calls, fsVars>>
    /\ UNCHANGED <<originalTranscript, revisedTranscript, visionAnalysis,
                   revisingSegments, activeSegmentIndex, timeUpdateListener, runInput,
                   fetchResponse, urlsRevoked, submissions,
                   wavVars, revVars, srtVars, studioVars>>

AppNext ==
    \/ HandleProcessVideo
    \/ HandleProcessUrl
    \/ FetchSettles
    \/ BlobSettles
    \/ AudioSettles
    \/ AppLoadedMetadata
    \/ AppSeeked
    \/ AppVideoError
    \/ ExtractionJoined
    \/ TranscribeSettles
    \/ ReviseTaskSettles
    \/ AnalysisSettles
    \/ RevisionJoined
    \/ ResetState

\* ------------------------------------------------------------------------
\* The studio view (src/App.tsx lines 365-385 and 408-451,
\* components/ComparisonTranscriptDisplay.tsx): text edits and
\* re-revisions of single segments.
\*
\* Index k of the model is index k - 1 of the code.
\* ------------------------------------------------------------------------

\* no re-revision has been requested
StudioInit ==
    /\ reRevisions = {}
    /\ requestsIssued = 0

\* the text typed in a textarea
EditedText == "edited"

\* the text reviseSingleSegment answers with
ReRevisedText == "Hello again."

Message_Segment == "Failed to revise the segment."

\* a property that an object does not have
Undefined == -1

\* the studio view is rendered (line 408)
StudioShown == videoSrc # 0 /\ ~isLoading

\* hasTranscripts (ComparisonTranscriptDisplay.tsx line 78, with the
\* `|| []` of App.tsx lines 434-436): the rows are rendered
RowsShown ==
    /\ StudioShown
    /\ originalTranscript # Null
    /\ revisedTranscript # Null
    /\ Len(originalTranscript.value) > 0
    /\ Len(revisedTranscript.value) > 0

\* revisingSegments[k], undefined being falsy
Revising(k) == k \in DOMAIN revisingSegments /\ revisingSegments[k]

\* { ...prev, [k]: flag }
WithFlag(prev, k, flag) ==
    [j \in DOMAIN prev \cup {k} |-> IF j = k THEN flag ELSE prev[j]]

\* const copy = [...arr]; copy[k] = { ...copy[k], text }; for k at most
\* one past the end of arr
WithText(arr, k, text) ==
    IF k <= Len(arr)
    THEN [arr EXCEPT ![k] = [@ EXCEPT !.text = text]]
    ELSE Append(arr, [start |-> Undefined, end |-> Undefined, text |-> text])

\* handleOriginalChange (ComparisonTranscriptDisplay.tsx lines 91-98)
HandleOriginalChange ==
    /\ runPc # "off"
    /\ RowsShown
    /\ \E k \in 1..Len(originalTranscript.value) :
          originalTranscript' =
              Some(WithText(originalTranscript.value, k, EditedText))
    /\ timeUpdateListener' =
          EffectRegisters(videoSrc, isLoading, originalTranscript')
    /\ UNCHANGED <<videoSrc, isLoading, loadingMessage, revisedTranscript,
                   visionAnalysis, error, revisingSegments,
                   activeSegmentIndex, runPc, runInput, fetchResponse, fetchBlob,
                   audioTask, transcribeTask, localTranscript, reviseTask,
                   analysisTask, calls, urlsCreated, urlsRevoked,
                   submissions, wavVars, fsVars, revVars, srtVars, studioVars>>

\* handleRevisedChange (ComparisonTranscriptDisplay.tsx lines 100-107);
\* the textarea is disabled where the revised transcript has no segment
HandleRevisedChange ==
    /\ runPc # "off"
    /\ RowsShown
    /\ \E k \in 1..Len(originalTranscript.value) :
          /\ k <= Len(revisedTranscript.value)
          /\ revisedTranscript' =
                 Some(WithText(revisedTranscript.value, k, EditedText))
    /\ UNCHANGED <<videoSrc, isLoading, loadingMessage, originalTranscript,
                   visionAnalysis, error, revisingSegments,
                   activeSegmentIndex, timeUpdateListener, runPc, runInput, fetchResponse, fetchBlob,
                   audioTask, transcribeTask, localTranscript, reviseTask,
                   analysisTask, calls, urlsCreated, urlsRevoked,
                   submissions, wavVars, fsVars, revVars, srtVars, studioVars>>

\* handleReReviseSegment up to its await (lines 365-373), from the button
\* of row k, rendered while revisingSegments[k] is falsy; the handler keeps
\* the revisedTranscript of the render it was created in
HandleReReviseSegment ==
    /\ runPc # "off"
    /\ RowsShown
    /\ NoContinuationReady
    /\ requestsIssued < MaxReRevisions
    /\ \E k \in 1..Len(originalTranscript.value) :
          /\ ~Revising(k)
          /\ revisingSegments' = WithFlag(revisingSegments, k, TRUE)
          /\ reRevisions' = reRevisions \cup
                 {[id |-> requestsIssued + 1,
                   run |-> submissions,
                   index |-> k,
                   originalSegmentText |-> originalTranscript.value[k].text,
                   revisedTranscript |-> revisedTranscript.value]}
    /\ requestsIssued' = requestsIssued + 1
    /\ error' = Null
    /\ UNCHANGED <<videoSrc, isLoading, loadingMessage, originalTranscript,
                   revisedTranscript, visionAnalysis, activeSegmentIndex, timeUpdateListener,
                   runPc, runInput, fetchResponse, fetchBlob, audioTask, transcribeTask,
                   localTranscript, reviseTask, analysisTask, calls,
                   urlsCreated, urlsRevoked, submissions,
                   wavVars, fsVars, revVars, srtVars>>

\* reviseSingleSegment settles (part_000 lines 185-197) and
\* handleReReviseSegment continues (lines 375-384)
ReReviseSettles ==
    /\ NoContinuationReady
    /\ \E request \in reRevisions :
          /\ reRevisions' = reRevisions \ {request}
          /\ revisingSegments' = WithFlag(revisingSegments, request.index, FALSE)
          /\ \/ /\ revisedTranscript' =
                       Some(WithText(request.revisedTranscript, request.index,
                                     ReRevisedText))
                /\ UNCHANGED error
             \/ /\ error' = Some("Failed to re-revise segment: " \o Message_Segment)
                /\ UNCHANGED revisedTranscript
    /\ UNCHANGED <<videoSrc, isLoading, loadingMessage, originalTranscript,
                   visionAnalysis, activeSegmentIndex, timeUpdateListener, runPc, runInput,
                   fetchResponse, fetchBlob, audioTask, transcribeTask, localTranscript,
                   reviseTask, analysisTask, calls, urlsCreated, urlsRevoked,
                   submissions, requestsIssued,
                   wavVars, fsVars, revVars, srtVars>>

\* the player's currentTime at a timeupdate event (seconds)
PlayerTimes == {1, 4}

\* originalTranscript.findIndex(segment => currentTime >= segment.start &&
\* currentTime <= segment.end), counted from 0 (lines 198-200)
FindSegmentIndex(t, playerTime) ==
    LET matching == {k \in 1..Len(t) :
                        playerTime >= t[k].start /\ playerTime <= t[k].end}
    IN  IF matching = {} THEN -1
        ELSE (CHOOSE k \in matching : \A j \in matching : k <= j) - 1

\* handleTimeUpdate (lines 196-211), the listener registered by the effect
\* with the originalTranscript of its render
HandleTimeUpdate ==
    /\ runPc # "off"
    /\ timeUpdateListener
    /\ \E playerTime \in PlayerTimes :
          LET newIndex == FindSegmentIndex(originalTranscript.value, playerTime)
          IN  activeSegmentIndex' =
                  IF newIndex # -1 /\ newIndex # activeSegmentIndex
                  THEN newIndex
                  ELSE IF newIndex # -1 THEN newIndex ELSE activeSegmentIndex
    /\ UNCHANGED <<videoSrc, isLoading, loadingMessage, originalTranscript,
                   revisedTranscript, visionAnalysis, error, revisingSegments,
                   timeUpdateListener, runPc, runInput, fetchResponse,
                   fetchBlob, audioTask, transcribeTask, localTranscript,
                   reviseTask, analysisTask, calls, urlsCreated, urlsRevoked,
                   submissions, wavVars, fsVars, revVars, srtVars, studioVars>>

StudioNext ==
    \/ AppNext
    \/ HandleTimeUpdate
    \/ HandleOriginalChange
    \/ HandleRevisedChange
    \/ HandleReReviseSegment
    \/ ReReviseSettles

\* ------------------------------------------------------------------------
\* Specifications
\* ------------------------------------------------------------------------

InitWav == WavInit /\ FsOff /\ RevOff /\ SrtOff /\ AppOff /\ StudioInit

SpecWav == InitWav /\ [][WavNext]_vars

InitFrames == FsInit /\ WavOff /\ RevOff /\ SrtOff /\ AppOff /\ StudioInit

SpecFrames == InitFrames /\ [][FsNext]_vars

InitRevise == RevInit /\ WavOff /\ FsOff /\ SrtOff /\ AppOff /\ StudioInit

SpecRevise == InitRevise /\ [][RevNext]_vars

InitSrt == SrtInit /\ WavOff /\ FsOff /\ RevOff /\ AppOff /\ StudioInit

InitApp == AppInit /\ WavOff /\ FsOff /\ RevOff /\ SrtOff /\ StudioInit

SpecApp == InitApp /\ [][AppNext]_vars

\* the browser delivers loadedmetadata and completes every seek, and a
\* settled Promise.all runs its continuation
SpecAppFair ==
    /\ InitApp
    /\ [][AppNext]_vars
    /\ WF_vars(AppLoadedMetadata)
    /\ WF_vars(AppSeeked)
    /\ WF_vars(ExtractionJoined)

SpecStudio == InitApp /\ [][StudioNext]_vars

SpecSrt == InitSrt /\ [][SrtNext]_vars

\* ========================================================================
\* Properties
\* ========================================================================

\* ---- reading a produced buffer back (little-endian) ----

GetUint16(v, at) == v[at] + 256 * v[at + 1]

GetUint32(v, at) ==
    v[at] + 256 * v[at + 1] + 65536 * v[at + 2] + 16777216 * v[at + 3]

GetInt16(v, at) ==
    IF GetUint16(v, at) >= 32768 THEN GetUint16(v, at) - 65536
    ELSE GetUint16(v, at)

GetBytes(v, at, n) == [k \in 1..n |-> v[at + k - 1]]

\* the buffer has been allocated and its header written
HeaderWritten == wavPc \in {"samples", "done"}

\* number of sample slots written so far
SlotsWritten == (pos - 44) \div 2

\* the slots of the sample body, as <<frame, channel>> pairs
Slots == (0..(buffer.length - 1)) \X (0..(buffer.numberOfChannels - 1))

\* the interleaved index of a slot
SlotIndex(sl) == sl[1] * buffer.numberOfChannels + sl[2]

\* the input sample of a slot
SlotSample(sl) == buffer.channelData[sl[2] + 1][sl[1] + 1]

\* the 16-bit value stored in a slot
SlotValue(sl) == GetInt16(view, 44 + 2 * SlotIndex(sl))

\* the set of input samples of the buffer
SamplesOf(b) ==
    { b.channelData[c][f] : c \in 1..b.numberOfChannels, f \in 1..b.length }

\* C1: the produced buffer has exactly 44 + frameCount*channelCount*2
\* bytes, starts with "RIFF", has "WAVE" at bytes 8..11, every write of the
\* sample loop fits in the buffer and reads an existing sample, and the
\* loop ends with pos at the end of the buffer and offset at frameCount
C1_LengthTagsAndLoopEnd ==
    /\ HeaderWritten =>
          /\ DOMAIN view = 0..(44 + buffer.length * buffer.numberOfChannels * 2 - 1)
          /\ GetBytes(view, 0, 4) = <<82, 73, 70, 70>>
          /\ GetBytes(view, 8, 4) = <<87, 65, 86, 69>>
          /\ pos = 44 + 2 * (offset * buffer.numberOfChannels + i)
    /\ (wavPc = "samples" /\ (i > 0 \/ pos < length)) =>
          /\ pos + 2 <= 44 + buffer.length * buffer.numberOfChannels * 2
          /\ offset < buffer.length
          /\ i < buffer.numberOfChannels
    /\ wavPc = "done" =>
          /\ pos = 44 + buffer.length * buffer.numberOfChannels * 2
          /\ offset = buffer.length

C1_Witness ==
    /\ wavPc = "done"
    /\ buffer.numberOfChannels = 2
    /\ buffer.length = 2

\* C2: a sample of 1.0 is written as 32767, -1.0 as -32768, 0.0 as 0, a
\* sample above 1 as 32767 and a sample below -1 as -32768
C2_QuantizationBoundaries ==
    HeaderWritten =>
        \A sl \in Slots :
            SlotIndex(sl) < SlotsWritten =>
                /\ SlotSample(sl) = SampleDen => SlotValue(sl) = 32767
                /\ SlotSample(sl) = -SampleDen => SlotValue(sl) = -32768
                /\ SlotSample(sl) = 0 => SlotValue(sl) = 0
                /\ SlotSample(sl) > SampleDen => SlotValue(sl) = 32767
                /\ SlotSample(sl) < -SampleDen => SlotValue(sl) = -32768

C2_Witness ==
    /\ wavPc = "done"
    /\ {SampleDen, -SampleDen, 0} \subseteq SamplesOf(buffer)
    /\ \E s \in SamplesOf(buffer) : s > SampleDen \/ s < -SampleDen

\* q is the rational num / den truncated toward zero (den > 0)
IsTrunc(q, num, den) ==
    IF num >= 0
    THEN q >= 0 /\ q * den <= num /\ num < (q + 1) * den
    ELSE q <= 0 /\ q * den >= num /\ num > (q - 1) * den

\* the sample s clamped to [-1, 1]
C3_Clamped(s) ==
    IF s > SampleDen THEN SampleDen ELSE IF s < -SampleDen THEN -SampleDen ELSE s

\* C3: the value written for a sample s is trunc(c * 32768) when
\* 0.5 + c < 0 and trunc(c * 32767) otherwise, c being s clamped to
\* [-1, 1]; samples in [-0.5, 0) are scaled by 32767; every written value
\* is in [-32768, 32767]
C3_QuantizationRule ==
    HeaderWritten =>
        \A sl \in Slots :
            SlotIndex(sl) < SlotsWritten =>
                LET c == C3_Clamped(SlotSample(sl))
                IN  /\ 2 * c < -SampleDen =>
                          IsTrunc(SlotValue(sl), c * 32768, SampleDen)
                    /\ 2 * c >= -SampleDen =>
                          IsTrunc(SlotValue(sl), c * 32767, SampleDen)
                    /\ SlotValue(sl) \in -32768..32767

C3_Witness ==
    /\ wavPc = "done"
    /\ \E s \in SamplesOf(buffer) : 2 * s >= -SampleDen /\ s < 0
    /\ \E s \in SamplesOf(buffer) : 2 * s < -SampleDen /\ s > -SampleDen

\* C4: the header fields read back from the produced buffer are the
\* channel count (bytes 22..23), the sample rate (bytes 24..27) and 16
\* bits per sample (bytes 34..35) of the input, with audio format 1
\* (bytes 20..21) and fmt sub-chunk size 16 (bytes 16..19)
C4_HeaderRoundTrip ==
    HeaderWritten =>
        /\ GetUint16(view, 22) = buffer.numberOfChannels
        /\ GetUint32(view, 24) = buffer.sampleRate
        /\ GetUint16(view, 34) = 16
        /\ GetUint16(view, 20) = 1
        /\ GetUint32(view, 16) = 16

C4_Witness ==
    /\ wavPc = "done"
    /\ buffer.sampleRate = 44100
    /\ buffer.numberOfChannels = 2
    /\ buffer.length > 0

\* C5: RIFF size = total length - 8, byte rate = sampleRate *
\* channelCount * 2, block align = channelCount * 2, data-chunk size =
\* total length - 44 = frameCount * channelCount * 2, and the first sample
\* is written at offset 44
C5_DerivedSizeFields ==
    HeaderWritten =>
        LET total == Cardinality(DOMAIN view)
        IN  /\ GetUint32(view, 4) = total - 8
            /\ GetUint32(view, 28) = buffer.sampleRate * buffer.numberOfChannels * 2
            /\ GetUint16(view, 32) = buffer.numberOfChannels * 2
            /\ GetUint32(view, 40) = total - 44
            /\ GetUint32(view, 40) = buffer.length * buffer.numberOfChannels * 2
            /\ GetBytes(view, 36, 4) = <<100, 97, 116, 97>>
            /\ (offset = 0 /\ i = 0) => pos = 44

C5_Witness ==
    /\ wavPc = "done"
    /\ buffer.sampleRate = 44100
    /\ buffer.numberOfChannels = 2
    /\ buffer.length = 2

\* C6: the 16-bit value at byte offset 44 + 2*(f*channelCount + c) is the
\* quantization of sample f of channel c
C6_Interleaved ==
    HeaderWritten =>
        \A f \in 0..(buffer.length - 1) :
            \A c \in 0..(buffer.numberOfChannels - 1) :
                (f * buffer.numberOfChannels + c < SlotsWritten) =>
                    LET s == C3_Clamped(buffer.channelData[c + 1][f + 1])
                        at == 44 + 2 * (f * buffer.numberOfChannels + c)
                    IN  IF 2 * s < -SampleDen
                        THEN IsTrunc(GetInt16(view, at), s * 32768, SampleDen)
                        ELSE IsTrunc(GetInt16(view, at), s * 32767, SampleDen)

C6_Witness ==
    /\ wavPc = "done"
    /\ buffer.numberOfChannels = 2
    /\ buffer.length = 2
    /\ Cardinality(SamplesOf(buffer)) = 4

\* C7 (as claimed): whenever the sampler's promise is fulfilled, its value
\* has exactly numberOfFrames entries
C7_ResolvesWithExactlyN ==
    promiseState = "fulfilled" => Len(promiseValue) = numberOfFrames

\* the time let currentTime holds after k additions of the interval
RECURSIVE Accumulated(_, _)
Accumulated(iv, k) ==
    IF k = 0 THEN Zero ELSE DoubleAdd(Accumulated(iv, k - 1), iv)

\* min(k * D / N, D), the k-th target as the claim states it
ClaimedTarget(k, d, n) ==
    SeekTarget(DoubleDiv(Double(k * d), n), Double(d))

\* min(0 + D/N + ... + D/N, D) with k additions, each one rounded
AccumulatedTarget(k, d, n) ==
    SeekTarget(Accumulated(Interval(Double(d), n), k), Double(d))

\* C8 (as claimed): the k-th capture (k = 0..N-1) follows a seek to
\* min(k*D/N, D); the targets are strictly increasing for D > 0, the
\* captures are stored in capture order, and for D = 10, N = 5 the targets
\* are 0, 2, 4, 6, 8 seconds
C8_AsClaimed ==
    /\ seekPending =>
          /\ framesExtracted < numberOfFrames
          /\ videoCurrentTime =
                 ClaimedTarget(framesExtracted, videoDuration, numberOfFrames)
    /\ context =>
          /\ Len(frames) = framesExtracted
          /\ \A k \in 1..Len(frames) :
                frames[k] = ClaimedTarget(k - 1, videoDuration, numberOfFrames)
          /\ \A k \in 1..(Len(frames) - 1) :
                videoDuration > 0 => DoubleLess(frames[k], frames[k + 1])
    /\ (promiseState = "fulfilled" /\ context
            /\ videoDuration = 10 /\ numberOfFrames = 5) =>
          promiseValue = <<Double(0), Double(2), Double(4), Double(6), Double(8)>>

\* C8 (amended): the k-th capture (k = 0..N-1) follows a seek to
\* min(s, D), where s is the result of adding the interval D/N to 0 k times
\* in floating-point arithmetic (k*D/N up to the rounding of the additions:
\* for D = 1, N = 5 the targets are 0, 0.2, 0.4, 0.6000000000000001, 0.8);
\* the targets are strictly increasing for D > 0, the captures are stored
\* in capture order, and for D = 10, N = 5 the targets are 0, 2, 4, 6, 8
\* seconds
C8_SeekTargets ==
    /\ seekPending =>
          /\ framesExtracted < numberOfFrames
          /\ videoCurrentTime =
                 AccumulatedTarget(framesExtracted, videoDuration,
                                   numberOfFrames)
    /\ context =>
          /\ Len(frames) = framesExtracted
          /\ \A k \in 1..Len(frames) :
                frames[k] =
                    AccumulatedTarget(k - 1, videoDuration, numberOfFrames)
          /\ \A k \in 1..(Len(frames) - 1) :
                videoDuration > 0 => DoubleLess(frames[k], frames[k + 1])
    /\ (promiseState = "fulfilled" /\ context
            /\ videoDuration = 10 /\ numberOfFrames = 5) =>
          promiseValue = <<Double(0), Double(2), Double(4), Double(6), Double(8)>>
    /\ (promiseState = "fulfilled" /\ context
            /\ videoDuration = 1 /\ numberOfFrames = 5) =>
          promiseValue = << Zero,
                            [exp |-> -3, hi |-> 53687091, lo |-> 26843546],
                            [exp |-> -2, hi |-> 53687091, lo |-> 26843546],
                            [exp |-> -1, hi |-> 40265318, lo |-> 53687092],
                            [exp |-> -1, hi |-> 53687091, lo |-> 26843546] >>

\* a run with D = 1, N = 5 has resolved, and its fourth capture was taken
\* at a time that is not 3 * D / N
C8_Witness ==
    /\ promiseState = "fulfilled"
    /\ context
    /\ videoDuration = 1
    /\ numberOfFrames = 5
    /\ Len(promiseValue) = 5
    /\ promiseValue[4] # ClaimedTarget(3, 1, 5)

\* C9: an error signalled while the promise is pending rejects it, and a
\* settled promise never changes: no run yields a rejection and a list of
\* frames
C9_ErrorRejectsOnce ==
    [][/\ (promiseState = "pending" /\ ~videoError /\ videoError') =>
             (promiseState' = "rejected" /\ promiseValue' = Message_FrameLoad)
       /\ (promiseState \in {"fulfilled", "rejected"}) =>
             (promiseState' = promiseState /\ promiseValue' = promiseValue)
      ]_vars

C9_Witness ==
    /\ promiseState = "rejected"
    /\ videoError
    /\ Len(frames) >= 2
    /\ framesExtracted >= numberOfFrames

\* C10: reviseScriptWithAI never returns an array whose length differs
\* from the transcript's: a response that is not an array or has another
\* length makes the call reject, and a returned array is the response
\* itself, neither truncated nor padded
C10_RevisionLengthChecked ==
    revPc = "done" =>
        /\ revResult.state \in {"fulfilled", "rejected"}
        /\ revResult.state = "fulfilled" =>
              /\ Len(revResult.value) = Len(transcript)
              /\ aiResponse.kind = "array"
              /\ revResult.value = aiResponse.data
        /\ aiResponse.kind # "array" => revResult.state = "rejected"
        /\ (aiResponse.kind = "array" /\ Len(aiResponse.data) # Len(transcript))
              => revResult.state = "rejected"

C10_Witness ==
    /\ revPc = "done"
    /\ revResult.state = "rejected"
    /\ aiResponse.kind = "array"
    /\ Len(transcript) = 2
    /\ Len(aiResponse.data) = 3

\* the timestamp HH:MM:SS,mmm of a time of ms milliseconds
C12_Timestamp(ms) ==
    Pad2(ms \div 3600000) \o ":" \o Pad2((ms \div 60000) % 60) \o ":"
        \o Pad2((ms \div 1000) % 60) \o "," \o Pad3(ms % 1000)

\* the block "{k}\n{start} --> {end}\n{text}\n" of the k-th segment
C12_Block(seg, k) ==
    ToString(k) \o "\n" \o C12_Timestamp(seg.start) \o " --> "
        \o C12_Timestamp(seg.end) \o "\n" \o seg.text \o "\n"

\* C12 (as claimed): the export of a non-empty transcript is the segments'
\* blocks in transcript order, each with both timestamps as HH:MM:SS,mmm
\* including the milliseconds of the segment time; {start: 4.5, end: 7.2,
\* text: "hello"} alone gives "1\n00:00:04,500 --> 00:00:07,200\nhello\n"
C12_SrtBlocksKeepMilliseconds ==
    (srtPc = "done" /\ Len(srtTranscript) > 0
        /\ \A k \in 1..Len(srtTranscript) : srtTranscript[k].start >= 0) =>
        /\ Len(srtTranscript) = 1 => srtContent = C12_Block(srtTranscript[1], 1)
        /\ Len(srtTranscript) = 2 =>
              srtContent = C12_Block(srtTranscript[1], 1) \o "\n"
                             \o C12_Block(srtTranscript[2], 2)
        /\ srtTranscript = <<[start |-> 4500, end |-> 7200, text |-> "hello"]>>
              => srtContent = "1\n00:00:04,500 --> 00:00:07,200\nhello\n"

\* C17: whenever the sampler's promise has settled its object URL has
\* been revoked, and without an error the URL is not revoked before the
\* last capture has been taken
C17_SamplerUrlReleased ==
    /\ promiseState \in {"fulfilled", "rejected"} => urlRevocations >= 1
    /\ (urlRevocations >= 1 /\ ~videoError) =>
          /\ framesExtracted >= numberOfFrames
          /\ promiseState = "fulfilled"

C17_Witness ==
    /\ promiseState = "fulfilled"
    /\ ~videoError
    /\ urlRevocations = 1
    /\ numberOfFrames >= 2
    /\ framesExtracted = numberOfFrames

\* C19: seeks and captures alternate: a capture follows a completed seek,
\* each capture issues at most the one next seek, at most one seek is
\* outstanding, and no seek is issued after the N-th capture
C19_SeekCaptureAlternate ==
    /\ [](/\ seeksIssued - framesExtracted = (IF seekPending THEN 1 ELSE 0)
          /\ seeksIssued <= numberOfFrames
          /\ framesExtracted <= numberOfFrames
          /\ framesExtracted >= numberOfFrames => ~seekPending)
    /\ [][/\ framesExtracted' # framesExtracted =>
                (seekPending /\ framesExtracted' = framesExtracted + 1)
          /\ seeksIssued' # seeksIssued =>
                (/\ ~seekPending \/ framesExtracted' = framesExtracted + 1
                 /\ seeksIssued' = seeksIssued + 1
                 /\ seekPending'
                 /\ framesExtracted' < numberOfFrames)
         ]_vars

C19_Witness ==
    /\ numberOfFrames >= 3
    /\ framesExtracted = numberOfFrames
    /\ seeksIssued = numberOfFrames
    /\ ~seekPending

\* ---- App ----

\* the per-element times of two transcripts agree
SameTimes(a, b) ==
    /\ Len(a) = Len(b)
    /\ \A k \in 1..Len(a) : a[k].start = b[k].start /\ a[k].end = b[k].end

\* C11: once a revision is accepted and stored, the revised transcript has
\* the length of the original and every element keeps the original's start
\* and end.
C11_RevisionKeepsTimes ==
    (originalTranscript # Null /\ revisedTranscript # Null) =>
        SameTimes(originalTranscript.value, revisedTranscript.value)

\* C13: the audio transcoder and the frame sampler are started in the same
\* step, before the await; transcription is called only once both have
\* fulfilled; if either rejected, transcription, revision and analysis are
\* not called in that run.
C13_JoinBeforeTranscription ==
    /\ [](/\ runPc = "extracting" =>
                /\ calls.audio = 1 /\ calls.frames = 1
                /\ audioTask # "none" /\ promiseState # "none"
          /\ calls.audio = calls.frames
          /\ calls.transcribe >= 1 =>
                audioTask = "fulfilled" /\ promiseState = "fulfilled"
          /\ (calls.audio = 1 /\ (audioTask = "rejected" \/ promiseState = "rejected")) =>
                calls.transcribe = 0 /\ calls.revise = 0 /\ calls.analyze = 0)
    /\ [][calls'.transcribe > calls.transcribe =>
             /\ runPc = "extracting"
             /\ audioTask = "fulfilled" /\ promiseState = "fulfilled"]_vars

C13_Witness ==
    /\ runPc = "ended"
    /\ audioTask = "fulfilled"
    /\ promiseState = "rejected"
    /\ calls = [NoCalls EXCEPT !.audio = 1, !.frames = 1]

\* a task of the run has rejected
PipelineTaskRejected ==
    /\ calls.audio = 1
    /\ \/ audioTask = "rejected"
       \/ promiseState = "rejected"
       \/ transcribeTask = "rejected"
       \/ reviseTask.state = "rejected"
       \/ analysisTask.state = "rejected"

PipelineMessages ==
    {Message_Audio, Message_FrameLoad, Message_Transcribe, Message_Revision,
     Message_Analysis}

\* C14: a failure in a run is terminal: every utility and collaborator is
\* called at most once per run, nothing is called after a rejection, the
\* run ends with one error message that no later step of the run replaces, and
\* at the end of the run isLoading is false and loadingMessage is empty, so
\* that Start Over is offered.
C14_FailureIsTerminal ==
    /\ [](/\ \A k \in DOMAIN calls : calls[k] <= 1
          /\ runPc = "ended" => (~isLoading /\ loadingMessage = "")
          /\ (runPc = "ended" /\ runInput.source = "file") =>
                (PipelineTaskRejected <=> error # Null)
          /\ (runPc = "ended" /\ PipelineTaskRejected) =>
                /\ error \in {Some("Processing failed: " \o m) : m \in PipelineMessages}
                /\ CanReset
          /\ transcribeTask = "rejected" => (calls.revise = 0 /\ calls.analyze = 0))
    /\ [][/\ (error # Null /\ error' # error /\ submissions' = submissions) =>
               error' = Null
          /\ (PipelineTaskRejected /\ submissions' = submissions) => calls' = calls]_vars

C14_Witness ==
    /\ runPc = "ended"
    /\ reviseTask.state = "rejected"
    /\ analysisTask.state = "running"
    /\ error = Some("Processing failed: " \o Message_Revision)
    /\ ~isLoading
    /\ loadingMessage = ""

\* C15: when a run has ended with an error, originalTranscript,
\* revisedTranscript and visionAnalysis are all null.
C15_NoPartialResults ==
    (runPc = "ended" /\ error # Null) =>
        /\ originalTranscript = Null
        /\ revisedTranscript = Null
        /\ visionAnalysis = Null

\* the three conditions of handleProcessUrl hold for the submitted URL
UrlAccepted ==
    /\ runInput.source = "url"
    /\ UrlPatternTest(runInput.url)
    /\ fetchResponse.kind = "response"
    /\ fetchResponse.ok
    /\ fetchBlob.state = "read"
    /\ StartsWith(fetchBlob.type, <<"v","i","d","e","o","/">>)

\* C16: for a URL submission the pipeline is started only if the URL
\* matches the pattern, the response is ok and the blob's type starts with
\* "video/"; otherwise the submission ends with no player source, no call
\* made, isLoading false and an error, which for a response that is not ok
\* carries its status and status text.
C16_UrlGate ==
    /\ (runInput.source = "url" /\ (calls # NoCalls \/ videoSrc # 0)) => UrlAccepted
    /\ (runInput.source = "url" /\ runPc = "ended" /\ ~UrlAccepted) =>
          /\ videoSrc = 0
          /\ calls = NoCalls
          /\ ~isLoading
          /\ error # Null
          /\ (fetchResponse.kind = "response" /\ ~fetchResponse.ok) =>
                error = Some("Failed to process URL. Server responded with "
                             \o ToString(fetchResponse.status) \o " "
                             \o fetchResponse.statusText \o ".")

C16_Witness ==
    /\ runInput.source = "url"
    /\ runPc = "ended"
    /\ fetchResponse.kind = "response"
    /\ fetchResponse.status = 404
    /\ error = Some("Failed to process URL. Server responded with 404 Not Found.")
    /\ videoSrc = 0
    /\ calls = NoCalls

\* the player object URLs not revoked yet
Unrevoked == (1..urlsCreated) \ urlsRevoked

\* C18: the only player object URL not revoked is the current videoSrc
\* (so there is at most one, and none when videoSrc is null), and a step
\* that replaces or clears videoSrc revokes the URL it held.
C18_PlayerUrlReleased ==
    /\ [](/\ Unrevoked = (IF videoSrc = 0 THEN {} ELSE {videoSrc})
          /\ Cardinality(Unrevoked) <= 1)
    /\ [][(videoSrc # 0 /\ videoSrc' # videoSrc) => videoSrc \in urlsRevoked']_vars

C18_Witness ==
    /\ urlsCreated = 2
    /\ urlsRevoked = {1}
    /\ videoSrc = 2

\* C20: with loadedmetadata delivered and every seek completed, a pending
\* sampler promise settles, and it is fulfilled only after exactly
\* numberOfFrames seeks and captures; the promise leaves pending only by a
\* seek completing or by the error event, and the run leaves the loading
\* state of the extraction only once the sampler promise has settled or
\* the audio extraction has rejected: there is no timeout.
C20_SamplerTermination ==
    /\ (promiseState = "pending") ~> (promiseState = "fulfilled" \/ videoError)
    /\ [](promiseState = "fulfilled" =>
             seeksIssued = numberOfFrames /\ framesExtracted = numberOfFrames)
    /\ [](runPc = "extracting" => isLoading)
    /\ [][/\ (promiseState = "pending" /\ promiseState' # "pending") =>
               \/ seekPending /\ framesExtracted' = framesExtracted + 1
               \/ ~videoError /\ videoError'
          /\ (runPc = "extracting" /\ (runPc' # "extracting" \/ ~isLoading')) =>
               promiseState # "pending" \/ audioTask = "rejected"]_vars

C20_Witness ==
    /\ runPc = "transcribing"
    /\ promiseState = "fulfilled"
    /\ seeksIssued = FramesPerRun
    /\ framesExtracted = FramesPerRun
    /\ isLoading

\* a pipeline run is in flight
RunInFlight ==
    runPc \in {"fetching", "readingBody", "extracting", "transcribing", "revising"}

\* C23: isLoading is true exactly while a run is in flight; a submission
\* happens only with isLoading false, videoSrc null and no run in flight;
\* while isLoading is true there is no submission and no reset, and a
\* player source is created only by the run in flight.
C23_OneRunInFlight ==
    /\ [](RunInFlight <=> isLoading)
    /\ [](isLoading => (~CanSubmit /\ ~CanReset))
    /\ [][/\ submissions' # submissions =>
               /\ ~isLoading /\ videoSrc = 0 /\ ~RunInFlight
               /\ submissions' = submissions + 1
          /\ isLoading =>
               /\ submissions' = submissions
               /\ videoSrc # 0 => videoSrc' = videoSrc
               /\ videoSrc' # videoSrc => runPc = "readingBody"
               /\ isLoading' \/ runPc' = "ended"
          /\ urlsCreated' # urlsCreated => (isLoading' /\ runPc' = "extracting")]_vars

C23_Witness ==
    /\ submissions = 2
    /\ runPc = "revising"
    /\ isLoading
    /\ videoSrc = 2
    /\ urlsRevoked = {1}

\* ---- Studio ----

\* the step completes re-revision request r
Completes(r) == r \in reRevisions /\ r \notin reRevisions'

\* the step completes re-revision request r successfully
Succeeds(r) == Completes(r) /\ error' = error

\* C21: when a re-revision requested in the current run completes
\* successfully, segment r.index of the revised transcript holds the new
\* text, and every other revised segment that holds a re-revised text or a
\* user's edit still holds it.
C21_NoLostUpdate ==
    [][\A r \in reRevisions :
         (Succeeds(r) /\ r.run = submissions /\ revisedTranscript # Null) =>
            /\ revisedTranscript' # Null
            /\ Len(revisedTranscript'.value) = Len(revisedTranscript.value)
            /\ revisedTranscript'.value[r.index].text = ReRevisedText
            /\ \A k \in 1..Len(revisedTranscript.value) :
                  (k # r.index /\ revisedTranscript.value[k].text
                                      \in {ReRevisedText, EditedText}) =>
                     revisedTranscript'.value[k].text
                        = revisedTranscript.value[k].text]_vars

\* C22: after resetState and until the next submission, videoSrc,
\* originalTranscript, revisedTranscript, visionAnalysis and error are
\* null.
C22_ResetIsFinal ==
    runPc = "idle" =>
        /\ videoSrc = 0
        /\ originalTranscript = Null
        /\ revisedTranscript = Null
        /\ visionAnalysis = Null
        /\ error = Null

\* the indices at which two transcripts of the same length differ
Differing(a, b) == {k \in 1..Len(a) : a[k] # b[k]}

\* C24: in the studio view after a successful run, with every request in
\* flight belonging to this run, a step keeps the lengths of both
\* transcripts (which are equal) and every start and end, changes at most
\* one segment of one transcript, and a failed re-revision leaves the
\* revised transcript as it was and sets error.
C24_SegmentStructureKept ==
    [][(/\ runPc = "ended" /\ runPc' = "ended"
        /\ originalTranscript # Null /\ originalTranscript' # Null
        /\ revisedTranscript # Null /\ revisedTranscript' # Null
        /\ \A r \in reRevisions : r.run = submissions) =>
          /\ Len(originalTranscript.value) = Len(revisedTranscript.value)
          /\ SameTimes(originalTranscript.value, originalTranscript'.value)
          /\ SameTimes(revisedTranscript.value, revisedTranscript'.value)
          /\ Cardinality(Differing(originalTranscript.value, originalTranscript'.value))
               + Cardinality(Differing(revisedTranscript.value, revisedTranscript'.value))
               <= 1
          /\ \A r \in reRevisions :
                (Completes(r) /\ ~Succeeds(r)) =>
                   /\ revisedTranscript' = revisedTranscript
                   /\ error' # Null]_vars

\* C25: revisingSegments[k] is true exactly when a re-revision of segment
\* k is in flight, and at most one is in flight for each index.
C25_FlagTracksRequests ==
    /\ \A r \in reRevisions : Revising(r.index)
    /\ \A k \in DOMAIN revisingSegments :
          revisingSegments[k] => \E r \in reRevisions : r.index = k
    /\ \A r1, r2 \in reRevisions : r1.index = r2.index => r1 = r2

============================================================================
